---- MODULE Spec2Model ----
(***************************************************************************)
(* polar_mandelbrot (src/main.rs): the Mandelbrot raster is rendered by    *)
(* one task per row into a Mutex-protected image, then compute_radius      *)
(* walks a Bresenham line from the origin pixel for each sampled angle.    *)
(*                                                                         *)
(* f32 values are modelled as signed fixed-point integers with FracBits    *)
(* fractional bits (value v stands for v / Scale), every operation rounded *)
(* to the nearest representable value as an f32 operation is.  Integers    *)
(* and small dyadic fractions are exact in both.  The raster is a scaled   *)
(* down IMG_WIDTH x IMG_HEIGHT grid of the same landscape shape.           *)
(***************************************************************************)
EXTENDS Integers, Sequences, FiniteSets, TLC

\* ---------------------------------------------------------------- bounds
IMG_WIDTH == 6
IMG_HEIGHT == 4
DomainSize == 8
FracBits == 11
MaxHoles == 1

\* ------------------------------------------------------ program constants
BAILOUT_ITERATIONS == 1000

Scale == 2^FracBits
F(n) == n * Scale
BAILOUT_RADIUS == F(2)

Black == <<0, 0, 0>>
White == <<255, 255, 255>>

\* ------------------------------------------------------------ f32 arithmetic
Abs(n) == IF n < 0 THEN -n ELSE n

\* n / d rounded to the nearest integer (ties away from zero), d > 0
RoundDiv(n, d) == IF n >= 0 THEN (2 * n + d) \div (2 * d)
                  ELSE -((2 * (-n) + d) \div (2 * d))

FMul(a, b) == RoundDiv(a * b, Scale)
FDiv(a, b) == IF b > 0 THEN RoundDiv(a * Scale, b) ELSE -RoundDiv(a * Scale, -b)

\* `as u32` on an f32: truncation toward zero, negatives saturate to 0
AsU32(v) == IF v <= 0 THEN 0 ELSE v \div Scale

RECURSIVE SqrtSearch(_, _, _)
SqrtSearch(n, lo, hi) ==
    IF lo >= hi THEN lo
    ELSE LET mid == (lo + hi + 1) \div 2
         IN IF mid * mid <= n THEN SqrtSearch(n, mid, hi)
            ELSE SqrtSearch(n, lo, mid - 1)

\* sqrt of a non-negative integer, rounded to nearest
ISqrt(n) == LET r == SqrtSearch(n, 0, 46340)
            IN IF n - r * r > r THEN r + 1 ELSE r

\* Complex<f32>::norm: hypot(re, im)
Norm(c) == ISqrt(c.re * c.re + c.im * c.im)

CMulAdd(z, c) == [re |-> FMul(z.re, z.re) - FMul(z.im, z.im) + c.re,
                  im |-> FMul(z.re, z.im) + FMul(z.im, z.re) + c.im]

\* ------------------------------------------------------- coordinate mapper
complex_to_coordinate(c) ==
    << AsU32(FMul(FDiv(FDiv(c.re, F(2)) + F(1), F(2)), F(IMG_WIDTH))),
       AsU32(FMul(F(1) - FDiv(FDiv(c.im, FDiv(FMul(F(2), F(IMG_HEIGHT)), F(IMG_WIDTH)))
                                   + F(1), F(2)),
                  F(IMG_HEIGHT))) >>

coordinate_to_complex(p) ==
    [re |-> FMul(F(2), FMul(FDiv(F(p[1]), F(IMG_WIDTH)), F(2)) - F(1)),
     im |-> FMul(FDiv(FMul(F(2), F(IMG_HEIGHT)), F(IMG_WIDTH)),
                 FMul(F(1) - FDiv(F(p[2]), F(IMG_HEIGHT)), F(2)) - F(1))]

\* ---------------------------------------------------- escape-time iteration
\* the loop state of compute_row for one pixel: z and the counter i
EscapeInit == [z |-> [re |-> 0, im |-> 0], i |-> 0]

EscapeCond(s) == Norm(s.z) < BAILOUT_RADIUS /\ s.i < BAILOUT_ITERATIONS

EscapeBody(s, c) == [z |-> CMulAdd(s.z, c), i |-> s.i + 1]

\* the while loop run for at most n passes (n passes cover it, the counter
\* guard ends it after BAILOUT_ITERATIONS); halving keeps the nesting shallow
RECURSIVE EscapeLoop(_, _, _)
EscapeLoop(s, c, n) ==
    IF ~EscapeCond(s) THEN s
    ELSE IF n = 1 THEN EscapeBody(s, c)
    ELSE EscapeLoop(EscapeLoop(s, c, n \div 2), c, n - (n \div 2))

EscapeCount(c) == EscapeLoop(EscapeInit, c, BAILOUT_ITERATIONS).i

\* the final counter i of every pixel (a pure function of the pixel)
CountTable ==
    [y \in 0..(IMG_HEIGHT - 1) |->
        [x \in 0..(IMG_WIDTH - 1) |-> EscapeCount(coordinate_to_complex(<<x, y>>))]]

\* mutant: the two colours exchanged
PixelColorInverted(i) == IF i < BAILOUT_ITERATIONS THEN White ELSE Black

PixelColor(i) == IF i < BAILOUT_ITERATIONS THEN Black ELSE White

compute_row(y) == [x \in 0..(IMG_WIDTH - 1) |-> PixelColor(CountTable[y][x])]

\* ------------------------------------------------------------ angles
\* std::f32::consts::PI
PI == RoundDiv(355 * Scale, 113)

DomainStart == 0
DomainEnd == FMul(PI, F(2))

\* the i-th sampled angle of plot_polar
Theta(i) == DomainStart + FMul(FDiv(DomainEnd - DomainStart, F(DomainSize)), F(i))

\* sine and cosine on [-pi/2, pi/2] by their power series
SinSeries(a) ==
    LET a2 == FMul(a, a)
        t4 == F(1) - FDiv(a2, F(72))
        t3 == F(1) - FMul(FDiv(a2, F(42)), t4)
        t2 == F(1) - FMul(FDiv(a2, F(20)), t3)
        t1 == F(1) - FMul(FDiv(a2, F(6)), t2)
    IN FMul(a, t1)

CosSeries(a) ==
    LET a2 == FMul(a, a)
        t4 == F(1) - FDiv(a2, F(56))
        t3 == F(1) - FMul(FDiv(a2, F(30)), t4)
        t2 == F(1) - FMul(FDiv(a2, F(12)), t3)
    IN F(1) - FMul(FDiv(a2, F(2)), t2)

\* argument reduction of theta in [0, 2 pi] to (-pi, pi]
Reduce(theta) == IF theta > PI THEN theta - 2 * PI ELSE theta

FSin(theta) ==
    LET a == Reduce(theta)
    IN IF 2 * a > PI THEN SinSeries(PI - a)
       ELSE IF 2 * a < -PI THEN SinSeries(-PI - a)
       ELSE SinSeries(a)

FCos(theta) ==
    LET a == Reduce(theta)
    IN IF 2 * a > PI THEN -CosSeries(PI - a)
       ELSE IF 2 * a < -PI THEN -CosSeries(-PI - a)
       ELSE CosSeries(a)

\* ------------------------------------------------------------ Bresenham
\* the line iterator of the bresenham crate as compute_radius uses it:
\* octant-normalised, from start to end, the end point itself not produced
OctantOf(start, end) ==
    LET dx0 == end[1] - start[1]
        dy0 == end[2] - start[2]
        dx1 == IF dy0 < 0 THEN -dx0 ELSE dx0
        dy1 == IF dy0 < 0 THEN -dy0 ELSE dy0
        o1  == IF dy0 < 0 THEN 4 ELSE 0
        dx2 == IF dx1 < 0 THEN dy1 ELSE dx1
        dy2 == IF dx1 < 0 THEN -dx1 ELSE dy1
        o2  == IF dx1 < 0 THEN o1 + 2 ELSE o1
    IN IF dx2 < dy2 THEN o2 + 1 ELSE o2

ToOctant0(o, p) ==
    CASE o = 0 -> << p[1],  p[2]>>
      [] o = 1 -> << p[2],  p[1]>>
      [] o = 2 -> << p[2], -p[1]>>
      [] o = 3 -> <<-p[1],  p[2]>>
      [] o = 4 -> <<-p[1], -p[2]>>
      [] o = 5 -> <<-p[2], -p[1]>>
      [] o = 6 -> <<-p[2],  p[1]>>
      [] o = 7 -> << p[1], -p[2]>>

FromOctant0(o, p) ==
    CASE o = 0 -> << p[1],  p[2]>>
      [] o = 1 -> << p[2],  p[1]>>
      [] o = 2 -> <<-p[2],  p[1]>>
      [] o = 3 -> <<-p[1],  p[2]>>
      [] o = 4 -> <<-p[1], -p[2]>>
      [] o = 5 -> <<-p[2], -p[1]>>
      [] o = 6 -> << p[2], -p[1]>>
      [] o = 7 -> << p[1], -p[2]>>

BresenhamNew(start, end) ==
    LET o == OctantOf(start, end)
        s == ToOctant0(o, start)
        e == ToOctant0(o, end)
        dx == e[1] - s[1]
        dy == e[2] - s[2]
    IN [x |-> s[1], y |-> s[2], dx |-> dx, dy |-> dy, x1 |-> e[1],
        diff |-> dy - dx, octant |-> o]

BresenhamDone(it) == it.x >= it.x1

BresenhamPoint(it) == FromOctant0(it.octant, <<it.x, it.y>>)

BresenhamAdvance(it) ==
    LET up == it.diff >= 0
    IN [it EXCEPT !.y = IF up THEN it.y + 1 ELSE it.y,
                  !.diff = (IF up THEN it.diff - it.dx ELSE it.diff) + it.dy,
                  !.x = it.x + 1]

\* every point the iterator produces, in order
RECURSIVE BresenhamPoints(_)
BresenhamPoints(it) ==
    IF BresenhamDone(it) THEN <<>>
    ELSE <<BresenhamPoint(it)>> \o BresenhamPoints(BresenhamAdvance(it))

\* ------------------------------------------------------ boundary radius
Pixels == (0..(IMG_WIDTH - 1)) \X (0..(IMG_HEIGHT - 1))

\* RgbImage::get_pixel panics outside the image bounds
InBounds(p) == p[1] >= 0 /\ p[1] < IMG_WIDTH /\ p[2] >= 0 /\ p[2] < IMG_HEIGHT

\* mutant: the walk goes on over black pixels
IsBlackColor(color) == color = Black

\* the colour test of the walk: the loop goes on over such a pixel
IsMemberColor(color) == color = White

Origin == complex_to_coordinate([re |-> 0, im |-> 0])

RayEnd(theta) ==
    complex_to_coordinate([re |-> FMul(F(2), FCos(theta)), im |-> FMul(F(2), FSin(theta))])

\* the angles plot_polar samples
ThetaTable == [j \in 0..(DomainSize - 1) |-> Theta(j)]

SampledAngles == {ThetaTable[j] : j \in 0..(DomainSize - 1)}

\* per sampled angle, the end pixel and the points Bresenham::new(origin, end)
\* produces (they depend on the angle alone, not on the raster)
RayTable ==
    [t \in SampledAngles |->
        [end |-> RayEnd(t), line |-> BresenhamPoints(BresenhamNew(Origin, RayEnd(t)))]]

\* coordinate_to_complex(p).norm() of every pixel
NormTable == [p \in Pixels |-> Norm(coordinate_to_complex(p))]

\* mutant: a pixel of another colour is skipped instead of ending the loop
RECURSIVE WalkNoBreak(_, _, _, _)
WalkNoBreak(buf, line, n, w) ==
    IF n > Len(line) THEN w
    ELSE LET p == line[n]
             r == [w EXCEPT !.reads = Append(w.reads, p)]
         IN IF ~InBounds(p) THEN [r EXCEPT !.panicked = TRUE]
            ELSE IF buf[p] # White THEN WalkNoBreak(buf, line, n + 1, r)
            ELSE WalkNoBreak(buf, line, n + 1, [r EXCEPT !.last_member = p])

\* the for loop of compute_radius from the n-th point of the line on:
\* w is [last_member, reads, panicked]
RECURSIVE Walk(_, _, _, _)
Walk(buf, line, n, w) ==
    IF n > Len(line) THEN w
    ELSE LET p == line[n]
             r == [w EXCEPT !.reads = Append(w.reads, p)]
         IN IF ~InBounds(p) THEN [r EXCEPT !.panicked = TRUE]
            ELSE IF ~IsMemberColor(buf[p]) THEN r
            ELSE Walk(buf, line, n + 1, [r EXCEPT !.last_member = p])

compute_radius(buf, theta) ==
    LET w == Walk(buf, RayTable[theta].line, 1,
                  [last_member |-> Origin, reads |-> <<>>, panicked |-> FALSE])
    IN [theta |-> theta, end |-> RayTable[theta].end, last_member |-> w.last_member,
        reads |-> w.reads, panicked |-> w.panicked,
        radius |-> IF w.panicked THEN 0 ELSE NormTable[w.last_member]]

\* ------------------------------------------------------------ state
Rows == 0..(IMG_HEIGHT - 1)
Cols == 0..(IMG_WIDTH - 1)
Main == IMG_HEIGHT           \* the holder id of main; row task y has id y

VARIABLES
    mainPc,     \* where main is: spawn, join, lock, save, plot, done, panicked
    nextY,      \* the y of the spawn loop of main
    taskPc,     \* per row task: unspawned, compute, lock, write, done
    row,        \* per row task: its local row (<<>> before compute_row returned)
    wx,         \* per row task: the x of its put_pixel loop
    holders,    \* who holds a guard of img_buf_mutex
    img,        \* the RgbImage inside the mutex
    writes,     \* history: how many put_pixel calls hit each pixel
    writers,    \* history: which row tasks wrote each pixel
    unlocked,   \* history: put_pixel calls made by a task holding no guard
    rasterReads,\* history: reads of the raster by main (save, get_pixel)
    saved,      \* the artifacts persisted so far, in order
    series,     \* the (theta, radius) points handed to the chart so far
    k,          \* the index of the next sampled angle
    result      \* what the last compute_radius call did

vars == <<mainPc, nextY, taskPc, row, wx, holders, img, writes, writers, unlocked,
          rasterReads, saved, series, k, result>>

NoResult == [theta |-> 0, end |-> Origin, last_member |-> Origin, reads |-> <<>>,
             panicked |-> FALSE, radius |-> 0]

\* ImageBuffer::new: every channel zero
NewImage == [p \in Pixels |-> Black]

Init ==
    /\ mainPc = "spawn"
    /\ nextY = 0
    /\ taskPc = [y \in Rows |-> "unspawned"]
    /\ row = [y \in Rows |-> <<>>]
    /\ wx = [y \in Rows |-> 0]
    /\ holders = {}
    /\ img = NewImage
    /\ writes = [p \in Pixels |-> 0]
    /\ writers = [p \in Pixels |-> {}]
    /\ unlocked = 0
    /\ rasterReads = 0
    /\ saved = <<>>
    /\ series = <<>>
    /\ k = 0
    /\ result = NoResult

\* ------------------------------------------------------------ main, part 1
\* for y in 0..IMG_HEIGHT { futures.push(tokio::spawn(...)) }
Spawn ==
    /\ mainPc = "spawn"
    /\ nextY < IMG_HEIGHT
    /\ taskPc' = [taskPc EXCEPT ![nextY] = "compute"]
    /\ nextY' = nextY + 1
    /\ mainPc' = IF nextY + 1 = IMG_HEIGHT THEN "join" ELSE "spawn"
    /\ UNCHANGED <<row, wx, holders, img, writes, writers, unlocked, rasterReads,
                   saved, series, k, result>>

\* ------------------------------------------------------------ row tasks
\* let row = compute_row(y);
ComputeRow(y) ==
    /\ taskPc[y] = "compute"
    /\ row' = [row EXCEPT ![y] = compute_row(y)]
    /\ taskPc' = [taskPc EXCEPT ![y] = "lock"]
    /\ UNCHANGED <<mainPc, nextY, wx, holders, img, writes, writers, unlocked,
                   rasterReads, saved, series, k, result>>

\* mutant: lock never waits
LockAlways(h) == TRUE

\* Mutex::lock returns once no other guard is alive
LockFree(h) == holders = {}

\* let mut img_buf = img_buf_mutex.lock().unwrap();
LockRow(y) ==
    /\ taskPc[y] = "lock"
    /\ LockFree(y)
    /\ holders' = holders \cup {y}
    /\ taskPc' = [taskPc EXCEPT ![y] = "write"]
    /\ wx' = [wx EXCEPT ![y] = 0]
    /\ UNCHANGED <<mainPc, nextY, row, img, writes, writers, unlocked, rasterReads,
                   saved, series, k, result>>

\* mutant: the row index off by one
PutTargetNextRow(x, y) == <<x, (y + 1) % IMG_HEIGHT>>

\* mutant: the row index dropped
PutTargetRow0(x, y) == <<x, 0>>

\* the pixel that put_pixel(x, y, ..) of row task y stores to
PutTarget(x, y) == <<x, y>>

\* img_buf.put_pixel(x, y, row[x as usize]);
PutPixel(y) ==
    /\ taskPc[y] = "write"
    /\ wx[y] < IMG_WIDTH
    /\ LET p == PutTarget(wx[y], y)
       IN /\ img' = [img EXCEPT ![p] = row[y][wx[y]]]
          /\ writes' = [writes EXCEPT ![p] = @ + 1]
          /\ writers' = [writers EXCEPT ![p] = @ \cup {y}]
    /\ unlocked' = IF y \in holders THEN unlocked ELSE unlocked + 1
    /\ wx' = [wx EXCEPT ![y] = @ + 1]
    /\ UNCHANGED <<mainPc, nextY, taskPc, row, holders, rasterReads, saved, series,
                   k, result>>

\* mutant: the guard is never dropped
Leaked(h) == holders

\* the guards left once the guard of h is dropped
Released(h) == holders \ {h}

\* the loop is over, the function returns and its guard is dropped
UnlockRow(y) ==
    /\ taskPc[y] = "write"
    /\ wx[y] = IMG_WIDTH
    /\ holders' = Released(y)
    /\ taskPc' = [taskPc EXCEPT ![y] = "done"]
    /\ UNCHANGED <<mainPc, nextY, row, wx, img, writes, writers, unlocked,
                   rasterReads, saved, series, k, result>>

\* ------------------------------------------------------------ main, part 2
\* mutant: only the first future is awaited
JoinedFirst == taskPc[0] = "done"

\* what join_all waits for
Joined == \A y \in Rows : taskPc[y] = "done"

\* futures::future::join_all(futures).await;
Join ==
    /\ mainPc = "join"
    /\ Joined
    /\ mainPc' = "lock"
    /\ UNCHANGED <<nextY, taskPc, row, wx, holders, img, writes, writers, unlocked,
                   rasterReads, saved, series, k, result>>

\* let img_buf = img_buf_mutex.lock().unwrap();
MainLock ==
    /\ mainPc = "lock"
    /\ LockFree(Main)
    /\ holders' = holders \cup {Main}
    /\ mainPc' = "save"
    /\ UNCHANGED <<nextY, taskPc, row, wx, img, writes, writers, unlocked,
                   rasterReads, saved, series, k, result>>

\* img_buf.save("output_set.png").unwrap();
Save ==
    /\ mainPc = "save"
    /\ saved' = Append(saved, [file |-> "output_set.png", content |-> img])
    /\ rasterReads' = rasterReads + 1
    /\ mainPc' = "plot"
    /\ UNCHANGED <<nextY, taskPc, row, wx, holders, img, writes, writers, unlocked,
                   series, k, result>>

\* one element of the iterator given to LineSeries::new in plot_polar
PlotSample ==
    /\ mainPc = "plot"
    /\ k < DomainSize
    /\ \E r \in {compute_radius(img, ThetaTable[k])} :
          /\ result' = r
          /\ rasterReads' = rasterReads + Len(r.reads)
          /\ IF r.panicked
             THEN /\ mainPc' = "panicked"
                  /\ UNCHANGED <<series, k>>
             ELSE /\ mainPc' = "plot"
                  /\ series' = Append(series, <<r.theta, r.radius>>)
                  /\ k' = k + 1
    /\ UNCHANGED <<nextY, taskPc, row, wx, holders, img, writes, writers, unlocked,
                   saved>>

\* root.present()?; then main returns and its guard is dropped
Present ==
    /\ mainPc = "plot"
    /\ k = DomainSize
    /\ saved' = Append(saved, [file |-> "output_plot.png", content |-> series])
    /\ holders' = Released(Main)
    /\ mainPc' = "done"
    /\ UNCHANGED <<nextY, taskPc, row, wx, img, writes, writers, unlocked,
                   rasterReads, series, k, result>>

RowTask(y) == ComputeRow(y) \/ LockRow(y) \/ PutPixel(y) \/ UnlockRow(y)

MainStep == Spawn \/ Join \/ MainLock \/ Save \/ PlotSample \/ Present

Next == MainStep \/ \E y \in Rows : RowTask(y)

Spec == Init /\ [][Next]_vars

\* the tokio runtime keeps running every spawned task and main
FairSpec == Spec /\ WF_vars(MainStep) /\ \A y \in Rows : WF_vars(RowTask(y))

\* ------------------------------------------------ the sampler on any raster
\* compute_radius takes any RgbImage of the viewport's size: rasters that are
\* white but for up to MaxHoles pixels, white or black squares around the
\* origin pixel, the empty image and the raster the pipeline renders
RECURSIVE HoleSets(_)
HoleSets(n) ==
    IF n = 0 THEN {{}}
    ELSE LET s == HoleSets(n - 1) IN s \cup {b \cup {p} : b \in s, p \in Pixels}

Cheb(p, q) == LET dx == Abs(p[1] - q[1])
                  dy == Abs(p[2] - q[2])
              IN IF dx > dy THEN dx ELSE dy

HoleRaster(b) == [p \in Pixels |-> IF p \in b THEN Black ELSE White]

SquareRaster(r, inside, outside) ==
    [p \in Pixels |-> IF Cheb(p, Origin) <= r THEN inside ELSE outside]

RenderedRaster == [p \in Pixels |-> compute_row(p[2])[p[1]]]

AllWhite == [p \in Pixels |-> White]

Rasters ==
    {HoleRaster(b) : b \in HoleSets(MaxHoles)}
    \cup {SquareRaster(r, White, Black) : r \in 0..IMG_WIDTH}
    \cup {SquareRaster(r, Black, White) : r \in 0..IMG_WIDTH}
    \cup {NewImage, RenderedRaster}

InitSampler ==
    /\ mainPc = "sample"
    /\ nextY = IMG_HEIGHT
    /\ taskPc = [y \in Rows |-> "done"]
    /\ row = [y \in Rows |-> <<>>]
    /\ wx = [y \in Rows |-> IMG_WIDTH]
    /\ holders = {Main}
    /\ img \in Rasters
    /\ writes = [p \in Pixels |-> 1]
    /\ writers = [p \in Pixels |-> {p[2]}]
    /\ unlocked = 0
    /\ rasterReads = 0
    /\ saved = <<>>
    /\ series = <<>>
    /\ k \in 0..(DomainSize - 1)
    /\ result = NoResult

\* compute_radius(&img_buf, theta) for the k-th angle
SampleRadius ==
    /\ mainPc = "sample"
    /\ \E r \in {compute_radius(img, ThetaTable[k])} :
          /\ result' = r
          /\ rasterReads' = rasterReads + Len(r.reads)
    /\ mainPc' = "sampled"
    /\ UNCHANGED <<nextY, taskPc, row, wx, holders, img, writes, writers, unlocked,
                   saved, series, k>>

NextSampler == SampleRadius

SpecSampler == InitSampler /\ [][NextSampler]_vars

\* ================================================================ claims
Centre == <<IMG_WIDTH \div 2, IMG_HEIGHT \div 2>>

AfterJoin == mainPc \in {"lock", "save", "plot", "done", "panicked"}

Reading == rasterReads > 0 \/ mainPc \in {"save", "plot", "done", "panicked"}

RowWritten(y) == taskPc[y] = "done" /\ wx[y] = IMG_WIDTH

\* C1: main reads the raster (save, compute_radius) only after every one of
\* the IMG_HEIGHT row tasks has written its whole row and returned.
C1_JoinIsBarrier == Reading => \A y \in Rows : RowWritten(y)

C1_Witness == rasterReads > 1 /\ mainPc = "plot" /\ \A y \in Rows : RowWritten(y)

\* C2: every pixel is written at most once, only by the row task of its own
\* y, and exactly once by the time main first reads the raster.
C2_WrittenOnce ==
    \A p \in Pixels :
        /\ writes[p] <= 1
        /\ writers[p] \subseteq {p[2]}
        /\ Reading => writes[p] = 1 /\ writers[p] = {p[2]}

C2_Witness == rasterReads > 0 /\ \A p \in Pixels : writes[p] = 1

\* C3: whatever the order in which the row tasks ran, took the lock and
\* finished, the raster main holds after the join has row y = compute_row(y).
C3_RasterDeterministic ==
    AfterJoin => \A p \in Pixels : img[p] = compute_row(p[2])[p[1]]

C3_Witness == mainPc = "save" /\ img # NewImage /\ taskPc[0] = "done"

\* C4 (as claimed): for every angle and every raster the walk starts and ends
\* in the viewport and reads only pixels of [0, W) x [0, H), so never faults.
C4_WalkInBounds ==
    mainPc = "sampled" =>
        /\ ~result.panicked
        /\ \A j \in 1..Len(result.reads) : InBounds(result.reads[j])

\* the pixels of the ray of the last compute_radius call, in walk order
Line == BresenhamPoints(BresenhamNew(Origin, RayEnd(result.theta)))

\* the length of the longest prefix of the ray made of in-range pixels of colour c
Prefix(c) ==
    LET ok(n) == \A j \in 1..n : InBounds(Line[j]) /\ img[Line[j]] = c
    IN CHOOSE n \in 0..Len(Line) :
          ok(n) /\ \A m \in 0..Len(Line) : ok(m) => m <= n

PixelAt(n) == IF n = 0 THEN Origin ELSE Line[n]

PlaneDistance(p) == Norm(coordinate_to_complex(p))

\* C5 (as claimed, black = interior): K black pixels followed by a white one
\* give the distance of the K-th pixel; an all-white raster gives the origin
\* pixel's distance; an all-black raster gives the last pixel of the ray.
C5_BlackRun ==
    mainPc = "sampled" =>
        LET K == Prefix(Black)
        IN /\ (K < Len(Line) /\ InBounds(Line[K + 1]))
                  => result.radius = PlaneDistance(PixelAt(K))
           /\ img = AllWhite => result.radius = PlaneDistance(Origin)
           /\ (img = NewImage /\ K = Len(Line))
                  => result.radius = PlaneDistance(PixelAt(Len(Line)))

\* C5 (amended, white = member): K white pixels followed by a pixel of any
\* other colour give the K-th pixel (the origin pixel for K = 0) and its plane
\* distance, and the walk reads nothing beyond that pixel; an all-black
\* raster gives the origin pixel; a ray that is white and in range up to its
\* end gives the last pixel produced (the end point itself is not produced).
C5_WhiteRun ==
    mainPc = "sampled" =>
        LET K == Prefix(White)
        IN /\ (K < Len(Line) /\ InBounds(Line[K + 1]))
                  => /\ ~result.panicked
                     /\ result.last_member = PixelAt(K)
                     /\ result.radius = PlaneDistance(PixelAt(K))
                     /\ result.reads = SubSeq(Line, 1, K + 1)
           /\ img = NewImage
                  => result.last_member = Origin
                     /\ result.radius = PlaneDistance(Origin)
           /\ K = Len(Line)
                  => /\ ~result.panicked
                     /\ result.last_member = PixelAt(Len(Line))
                     /\ result.radius = PlaneDistance(PixelAt(Len(Line)))

\* a white run, then a black pixel, and a white pixel again behind it
C5_Witness ==
    /\ mainPc = "sampled"
    /\ Prefix(White) >= 1
    /\ Prefix(White) + 1 < Len(Line)
    /\ InBounds(Line[Prefix(White) + 2])
    /\ img[Line[Prefix(White) + 2]] = White
    /\ result.last_member = Line[Prefix(White)]

Computed(y) == row[y] # <<>>

\* C6 (as claimed): a rendered pixel is black iff its counter reached
\* BAILOUT_ITERATIONS and white otherwise; pixel (W/2, H/2) ends up black.
C6_BlackIsInterior ==
    /\ \A y \in Rows : Computed(y) =>
          \A x \in Cols : (row[y][x] = Black) <=> (CountTable[y][x] = BAILOUT_ITERATIONS)
    /\ writes[Centre] > 0 => img[Centre] = Black

\* C6 (amended): a rendered pixel is white iff its counter reached
\* BAILOUT_ITERATIONS and black otherwise; pixel (W/2, H/2) ends up white.
C6_WhiteIsInterior ==
    /\ \A y \in Rows : Computed(y) =>
          \A x \in Cols :
             /\ row[y][x] \in {Black, White}
             /\ (row[y][x] = White) <=> (CountTable[y][x] = BAILOUT_ITERATIONS)
    /\ writes[Centre] > 0 => img[Centre] = White

C6_Witness ==
    /\ writes[Centre] = 1
    /\ img[Centre] = White
    /\ \E x \in Cols : row[Centre[2]][x] = Black

C8_LockDiscipline ==
    /\ Cardinality(holders) <= 1
    /\ unlocked = 0
    /\ \A y \in Rows :
          /\ (y \in holders) <=> (taskPc[y] = "write")
          /\ taskPc[y] \in {"lock", "write", "done"} => DOMAIN row[y] = Cols
          /\ taskPc[y] \in {"unspawned", "compute", "lock"} =>
                \A x \in Cols : writes[<<x, y>>] = 0

C8_Witness ==
    \E y \in Rows :
        /\ holders = {y}
        /\ wx[y] > 0 /\ wx[y] < IMG_WIDTH
        /\ \E u \in Rows : u # y /\ taskPc[u] = "lock"

\* the loop state of compute_row when it leaves the while loop for pixel p
Escaped(p) == EscapeLoop(EscapeInit, coordinate_to_complex(p), BAILOUT_ITERATIONS)

LeftEdge == <<0, IMG_HEIGHT \div 2>>

\* C9 (as claimed): the loop is left early only with |z| > 2.0, so pixel
\* (0, H/2), the point -2 + 0i, runs all BAILOUT_ITERATIONS passes.
C9_StrictBailout ==
    Computed(LeftEdge[2]) =>
        /\ coordinate_to_complex(LeftEdge) = [re |-> -BAILOUT_RADIUS, im |-> 0]
        /\ Escaped(LeftEdge).i < BAILOUT_ITERATIONS
              => Norm(Escaped(LeftEdge).z) > BAILOUT_RADIUS
        /\ Escaped(LeftEdge).i = BAILOUT_ITERATIONS

\* the last pixel of the initial run of maximum-iteration pixels on the ray
\* of the j-th sampled angle (the origin pixel when the run is empty)
RunLast(j) ==
    LET line == BresenhamPoints(BresenhamNew(Origin, RayEnd(Theta(j))))
        full(n) == \A i \in 1..n :
                      /\ InBounds(line[i])
                      /\ CountTable[line[i][2]][line[i][1]] = BAILOUT_ITERATIONS
        n == CHOOSE n \in 0..Len(line) :
                full(n) /\ \A m \in 0..Len(line) : full(m) => m <= n
    IN IF n = 0 THEN Origin ELSE line[n]

\* C10: the colour the walk goes on over is the colour compute_row gives a
\* pixel whose counter reached BAILOUT_ITERATIONS, every other colour it gives
\* stops the walk, and each sampled radius is the plane distance of the last
\* pixel of the initial run of such pixels.
C10_ColoursAgree ==
    /\ \A p \in Pixels : writes[p] > 0 =>
          (IsMemberColor(img[p]) <=> CountTable[p[2]][p[1]] = BAILOUT_ITERATIONS)
    /\ \A j \in 1..Len(series) :
          /\ series[j][1] = Theta(j - 1)
          /\ series[j][2] = PlaneDistance(RunLast(j - 1))

C10_Witness ==
    /\ Len(series) = DomainSize
    /\ \E j \in 1..Len(series) : series[j][2] > 0 /\ RunLast(j - 1) # Origin
    /\ \E j \in 1..Len(series) : RunLast(j - 1) = Origin
====
